---- MODULE Spec2Model ----
(***************************************************************************)
(* Saknli API (src/main.py, src/schemas.py): a state machine of the four   *)
(* collections user, session, property, booking, the server clock, and the *)
(* last request/response pair.  One action per route handler; a handler    *)
(* runs to completion in one step (sequential requests).  The race         *)
(* specifications at the end run signup, update and delete one database    *)
(* call per step, with the frames of the running handlers in inflight.     *)
(*                                                                         *)
(* Conventions.  An Optional[T] value is a set with at most one element:   *)
(* {} is None, {v} is the value v.  A collection is the sequence of its    *)
(* documents in insertion order; find_one is the first match.  An ObjectId *)
(* is <<"ObjectId", n>> and its str() form is <<"str", n>>; <<"str", 0>>   *)
(* stands for a string that is not a well-formed identifier.               *)
(***************************************************************************)
EXTENDS Integers, Sequences, FiniteSets, TLC

VARIABLES user, session, property, booking, now, nextId, resp, issued, inflight

\* issued: history of what clients were told, {[token, id, email, via, at]}
\* inflight: the local variables of the handlers that run one call per step
vars == <<user, session, property, booking, now, nextId, resp, issued, inflight>>

----------------------------------------------------------------------------
(* Bounds of the model *)

MaxUsers == 2
MaxSessions == 3
MaxNow == 7
MaxProps == 2
MaxBookings == 2
MaxWorkers == 2

(* Program constants *)

SESSION_DAYS == 7

None == {}
Some(v) == {v}
The(s) == CHOOSE v \in s : TRUE

----------------------------------------------------------------------------
(* Identifiers *)

ObjectId(n) == <<"ObjectId", n>>
str(oid) == <<"str", oid[2]>>
BadIdStr == <<"str", 0>>

\* ObjectId(id_str) raises for a malformed string: HTTP 400 (None here)
to_object_id(id_str) ==
    IF id_str[2] >= 1 THEN Some(ObjectId(id_str[2])) ELSE None

----------------------------------------------------------------------------
(* Helpers *)

PW_SALT == "saknli_salt"

hash_password(password) == <<"sha256", password, PW_SALT>>

\* user_safe that leaves the hash in the view
user_safe_mut_hash(u) ==
    [id |-> str(u._id), full_name |-> u.full_name, email |-> u.email,
     password_hash |-> u.password_hash,
     role |-> u.role, phone |-> u.phone, city |-> u.city]

\* drop password_hash, expose _id as the string field id
user_safe(u) ==
    [id |-> str(u._id), full_name |-> u.full_name, email |-> u.email,
     role |-> u.role, phone |-> u.phone, city |-> u.city]

\* str.lower() on the scheme word of an Authorization header
lower(s) == IF s \in {"Bearer", "BEARER", "bearer"} THEN "bearer"
            ELSE IF s \in {"Basic", "basic"} THEN "basic" ELSE s

(* An Authorization header value is a scheme word, a blank, and the        *)
(* whitespace-separated words after it: [scheme, words].  None: no header. *)
get_current_user_mut_expiry(authorization) ==
    IF authorization = None \/ lower(The(authorization).scheme) # "bearer"
    THEN [status |-> 401, user |-> None]
    ELSE IF Len(The(authorization).words) = 0
    THEN [status |-> 500, user |-> None]
    ELSE LET token == The(authorization).words[1]
             found == SelectSeq(session,
                        LAMBDA s : s.token = token /\ s.expires_at >= now)
         IN IF Len(found) = 0
            THEN [status |-> 401, user |-> None]
            ELSE LET u == SelectSeq(user, LAMBDA d : d._id = Head(found).user_id)
                 IN IF Len(u) = 0
                    THEN [status |-> 401, user |-> None]
                    ELSE [status |-> 200, user |-> Some(user_safe(Head(u)))]

get_current_user(authorization) ==
    IF authorization = None \/ lower(The(authorization).scheme) # "bearer"
    THEN [status |-> 401, user |-> None]
    ELSE IF Len(The(authorization).words) = 0
    THEN [status |-> 500, user |-> None]    \* split()[1]: IndexError
    ELSE LET token == The(authorization).words[1]
             found == SelectSeq(session,
                        LAMBDA s : s.token = token /\ s.expires_at > now)
         IN IF Len(found) = 0
            THEN [status |-> 401, user |-> None]
            ELSE LET u == SelectSeq(user, LAMBDA d : d._id = Head(found).user_id)
                 IN IF Len(u) = 0
                    THEN [status |-> 401, user |-> None]
                    ELSE [status |-> 200, user |-> Some(user_safe(Head(u)))]

Bearer(token) == Some([scheme |-> "Bearer", words |-> <<token>>])

\* secrets.token_urlsafe(32): a value no stored session holds
NewToken == <<"tok", Len(session) + 1>>

----------------------------------------------------------------------------
(* Auth *)

Emails == {"a@x", "b@x", "c@x"}
Passwords == {"pw1", "pw2"}

SignupReq(email, password, role) ==
    [full_name |-> "n", email |-> email, password |-> password,
     role |-> role, phone |-> None, city |-> None]

\* the request bodies the model sends: two for the same e-mail
SignupBody == {SignupReq("a@x", "pw1", "host"), SignupReq("a@x", "pw2", "user"),
               SignupReq("b@x", "pw2", "admin"), SignupReq("c@x", "pw1", "user")}
LoginBody == {[email |-> "a@x", password |-> "pw1"],
              [email |-> "a@x", password |-> "pw2"],
              [email |-> "b@x", password |-> "pw2"],
              [email |-> "c@x", password |-> "pw2"]}

\* signup without the pre-check on the e-mail
signup_mut_nocheck(body) ==
    LET user_id == ObjectId(nextId)
        user_doc == [_id |-> user_id, full_name |-> body.full_name,
                     email |-> body.email,
                     password_hash |-> <<"sha256", body.password, "saknli_salt">>,
                     role |-> body.role, phone |-> body.phone,
                     city |-> body.city]
    IN /\ Len(user) < MaxUsers
       /\ Len(session) < MaxSessions
       /\ user' = Append(user, user_doc)
       /\ nextId' = nextId + 1
       /\ session' = Append(session, [user_id |-> user_id, token |-> NewToken,
                                      expires_at |-> now + SESSION_DAYS])
       /\ resp' = [op |-> "signup", status |-> 200, req |-> body,
                   token |-> NewToken, user |-> user_safe(user_doc)]
       /\ issued' = issued \cup {[token |-> NewToken, id |-> str(user_id),
                                  email |-> body.email, via |-> "signup",
                                  at |-> now]}
       /\ UNCHANGED <<property, booking, now>>

\* UserSchema(...).model_dump() as stored by insert_one under _id
UserSchema(user_id, body) ==
    [_id |-> user_id, full_name |-> body.full_name, email |-> body.email,
     password_hash |-> hash_password(body.password), role |-> body.role,
     phone |-> body.phone, city |-> body.city]

\* SessionSchema(...).model_dump() with user_id replaced by the ObjectId
SessionSchema(user_id, token, issued_at) ==
    [user_id |-> user_id, token |-> token,
     expires_at |-> issued_at + SESSION_DAYS]

signup(body) ==
    LET existing == SelectSeq(user, LAMBDA d : d.email = body.email)
        user_id == ObjectId(nextId)
        user_doc == UserSchema(user_id, body)
        token == NewToken
        session_doc == SessionSchema(user_id, token, now)
    IN /\ Len(user) < MaxUsers
       /\ Len(session) < MaxSessions
       /\ IF Len(existing) > 0
          THEN /\ resp' = [op |-> "signup", status |-> 400, req |-> body]
               /\ UNCHANGED <<user, session, nextId, issued>>
          ELSE /\ user' = Append(user, user_doc)
               /\ nextId' = nextId + 1
               /\ session' = Append(session, session_doc)
               /\ resp' = [op |-> "signup", status |-> 200, req |-> body,
                           token |-> token, user |-> user_safe(user_doc)]
               /\ issued' = issued \cup {[token |-> token, id |-> str(user_id),
                                          email |-> body.email, via |-> "signup",
                                  at |-> now]}
       /\ UNCHANGED <<property, booking, now>>

\* login that does not compare the password hash
login_mut_nopw(body) ==
    LET found == SelectSeq(user, LAMBDA d : d.email = body.email)
        token == NewToken
    IN /\ Len(session) < MaxSessions
       /\ IF Len(found) = 0
          THEN /\ resp' = [op |-> "login", status |-> 401, req |-> body]
               /\ UNCHANGED <<session, issued>>
          ELSE /\ session' = Append(session,
                     [user_id |-> Head(found)._id, token |-> token,
                      expires_at |-> now + SESSION_DAYS])
               /\ resp' = [op |-> "login", status |-> 200, req |-> body,
                           token |-> token, user |-> user_safe(Head(found))]
               /\ issued' = issued \cup
                     {[token |-> token, id |-> str(Head(found)._id),
                       email |-> body.email, via |-> "login", at |-> now]}
       /\ UNCHANGED <<user, property, booking, now, nextId>>

login(body) ==
    LET found == SelectSeq(user, LAMBDA d : d.email = body.email)
        token == NewToken
    IN /\ Len(session) < MaxSessions
       /\ IF Len(found) = 0
             \/ Head(found).password_hash # hash_password(body.password)
          THEN /\ resp' = [op |-> "login", status |-> 401, req |-> body]
               /\ UNCHANGED <<session, issued>>
          ELSE /\ session' = Append(session,
                     SessionSchema(Head(found)._id, token, now))
               /\ resp' = [op |-> "login", status |-> 200, req |-> body,
                           token |-> token, user |-> user_safe(Head(found))]
               /\ issued' = issued \cup
                     {[token |-> token, id |-> str(Head(found)._id),
                       email |-> body.email, via |-> "login", at |-> now]}
       /\ UNCHANGED <<user, property, booking, now, nextId>>

me(authorization) ==
    LET cur == get_current_user(authorization)
    IN /\ resp' = [op |-> "me", status |-> cur.status,
                   req |-> authorization, user |-> cur.user]
       /\ UNCHANGED <<user, session, property, booking, now, nextId, issued>>

\* the server clock advances between requests
Tick ==
    /\ now < MaxNow
    /\ now' = now + 1
    /\ UNCHANGED <<user, session, property, booking, nextId, resp, issued>>

(* Requests are served one at a time: a handler starts when no exchange  *)
(* is pending, and its response is delivered before the next one starts. *)
NoResponse == [op |-> "none", status |-> 0]
Idle == resp = NoResponse

\* the threads and processes that serve requests, and a frame of one at rest
Workers == 1..MaxWorkers
NoFrame == [pc |-> "idle"]
NoInflight == [w \in Workers |-> NoFrame]

\* a handler that runs to completion in one step
Serial == Idle /\ UNCHANGED inflight

Deliver ==
    /\ ~Idle
    /\ resp' = NoResponse
    /\ UNCHANGED <<user, session, property, booking, now, nextId, issued,
                   inflight>>

\* Authorization headers: none, every token that may be issued under the
\* usual scheme word, and the first token under other spellings, under another
\* scheme, after a second blank, and left out after the scheme word
Tokens == {<<"tok", k>> : k \in 1..MaxSessions}
Headers == {None} \cup {Bearer(t) : t \in Tokens}
           \cup {Some([scheme |-> w, words |-> <<<<"tok", 1>>>>]) :
                    w \in {"bearer", "BEARER", "Basic"}}
           \cup {Some([scheme |-> "Bearer", words |-> <<<<"tok", 1>>, <<"tok", 2>>>>]),
                 Some([scheme |-> "Bearer", words |-> <<>>])}

Init ==
    /\ user = <<>>
    /\ session = <<>>
    /\ property = <<>>
    /\ booking = <<>>
    /\ now = 0
    /\ nextId = 1
    /\ resp = NoResponse
    /\ inflight = NoInflight
    /\ issued = {}

Next ==
    \/ Serial /\ \E body \in SignupBody : signup(body)
    \/ Serial /\ \E body \in LoginBody : login(body)
    \/ Serial /\ \E authorization \in Headers : me(authorization)
    \/ Serial /\ Tick
    \/ Deliver

Spec == Init /\ [][Next]_vars

----------------------------------------------------------------------------
(* Claims on the auth routes, checked under Spec *)

Registered(email) == \E i \in 1..Len(user) : user[i].email = email
IsPrefix(s, t) == Len(s) <= Len(t) /\ SubSeq(t, 1, Len(s)) = s

(* C1: a signup whose e-mail equals that of a stored User answers 400 and *)
(* creates neither a User nor a Session; a signup with an e-mail not yet  *)
(* registered creates exactly one User (with that e-mail) and one Session *)
(* (for that user).                                                       *)
C1_SignupEmailOnce ==
    [][resp'.op = "signup" =>
        IF Registered(resp'.req.email)
        THEN /\ resp'.status = 400
             /\ user' = user
             /\ session' = session
        ELSE /\ resp'.status = 200
             /\ Len(user') = Len(user) + 1
             /\ IsPrefix(user, user')
             /\ user'[Len(user')].email = resp'.req.email
             /\ Len(session') = Len(session) + 1
             /\ IsPrefix(session, session')
             /\ session'[Len(session')].user_id = user'[Len(user')]._id
    ]_vars

\* a second signup for a registered e-mail was just refused
C1_Witness ==
    /\ resp.op = "signup"
    /\ resp.status = 400
    /\ Registered(resp.req.email)
    /\ Len(user) >= 1

(* C2: every session is stored with expires_at = issuance time + 7 days;  *)
(* a protected route accepts its token at server time t iff t is strictly *)
(* before expires_at, answers 401 otherwise, and no stored session is     *)
(* ever removed or changed.                                               *)
C2_SessionExpiry ==
    [][/\ IsPrefix(session, session')
       /\ Len(session') > Len(session) =>
             session'[Len(session')].expires_at = now + SESSION_DAYS
       /\ resp'.op = "me" =>
             \A i \in 1..Len(session') :
                resp'.req = Bearer(session'[i].token) =>
                   /\ resp'.status = 200 <=> now' < session'[i].expires_at
                   /\ now' >= session'[i].expires_at => resp'.status = 401
    ]_vars

\* a token presented exactly at its expiry instant was refused
C2_Witness ==
    /\ resp.op = "me"
    /\ resp.status = 401
    /\ \E i \in 1..Len(session) :
          /\ resp.req = Bearer(session[i].token)
          /\ session[i].expires_at = now

(* C3: login with an unknown e-mail or a password whose hash differs from *)
(* the stored one answers 401 and creates no session; login with correct  *)
(* credentials creates a session and returns its token; and a token a     *)
(* login returned, while unexpired, makes /me return the user that logged *)
(* in, whatever signups and logins happened in between.                   *)
C3_LoginStep ==
    [][resp'.op = "login" =>
        LET m == {i \in 1..Len(user) : user[i].email = resp'.req.email}
        IN IF \E i \in m :
                 user[i].password_hash = hash_password(resp'.req.password)
           THEN /\ resp'.status = 200
                /\ Len(session') = Len(session) + 1
                /\ session'[Len(session')].token = resp'.token
                /\ \E i \in m : resp'.user.id = str(user[i]._id)
                /\ \A i \in 1..Len(session) : session[i].token # resp'.token
           ELSE /\ resp'.status = 401
                /\ session' = session
    ]_vars

C3_TokenResolves ==
    resp.op = "me" =>
       \A g \in issued :
          /\ resp.req = Bearer(g.token)
          /\ \E i \in 1..Len(session) :
                session[i].token = g.token /\ now < session[i].expires_at
          => /\ resp.status = 200
             /\ The(resp.user).id = g.id
             /\ The(resp.user).email = g.email

C3_Login == C3_LoginStep /\ [][C3_TokenResolves']_vars

\* /me resolved a login's token after other users signed up and logged in
C3_Witness ==
    /\ resp.op = "me"
    /\ resp.status = 200
    /\ \E g \in issued :
          /\ g.via = "login"
          /\ resp.req = Bearer(g.token)
          /\ The(resp.user).id = g.id
          /\ \E h \in issued : h.id # g.id

(* C16: /me answers 401 for every Authorization header that is absent or  *)
(* not "Bearer <token>" with a token: another scheme word, or the scheme  *)
(* word followed only by whitespace.                                      *)
C16_Unauthorized ==
    resp.op = "me" =>
       ((\/ resp.req = None
         \/ \E h \in resp.req : lower(h.scheme) # "bearer" \/ Len(h.words) = 0)
        => resp.status = 401)

----------------------------------------------------------------------------
(* Properties *)

\* the last exchange: the route, its request, the HTTP status and the JSON
\* objects of the response body
Response(op, req, status, body) ==
    [op |-> op, req |-> req, status |-> status, body |-> body]

\* the fields of a PropertyCreate body the model varies; the rest are fixed
PropertyCreate(title, city, type, price_per_month, available_from, available_to) ==
    [title |-> title, description |-> "d", city |-> city, address |-> "a",
     type |-> type, price_per_month |-> price_per_month, images |-> <<>>,
     lat |-> None, lng |-> None, distance_to_university |-> None,
     available_from |-> available_from, available_to |-> available_to]

\* PropertyUpdate: every field Optional, None unless given
NoUpdate ==
    [title |-> None, description |-> None, city |-> None, address |-> None,
     type |-> None, price_per_month |-> None, images |-> None, lat |-> None,
     lng |-> None, distance_to_university |-> None, available_from |-> None,
     available_to |-> None, is_active |-> None]

\* Field(ge=0) on Property.price_per_month: the schema's only constraint
PropertySchemaValid(body) == body.price_per_month >= 0

\* PropertySchema(**body.model_dump(), host_id=...).model_dump() under _id
PropertySchema(prop_id, body, host_id) ==
    [_id |-> prop_id, title |-> body.title, description |-> body.description,
     city |-> body.city, address |-> body.address, type |-> body.type,
     price_per_month |-> body.price_per_month, images |-> body.images,
     lat |-> body.lat, lng |-> body.lng,
     distance_to_university |-> body.distance_to_university,
     available_from |-> body.available_from,
     available_to |-> body.available_to,
     host_id |-> host_id, is_active |-> TRUE, updated_at |-> None]

\* d["id"] = str(d.pop("_id"))
property_view(d) ==
    [id |-> str(d._id), title |-> d.title, description |-> d.description,
     city |-> d.city, address |-> d.address, type |-> d.type,
     price_per_month |-> d.price_per_month, images |-> d.images,
     lat |-> d.lat, lng |-> d.lng,
     distance_to_university |-> d.distance_to_university,
     available_from |-> d.available_from, available_to |-> d.available_to,
     host_id |-> d.host_id, is_active |-> d.is_active,
     updated_at |-> d.updated_at]

\* the update without exclude_none on the Optional fields of the document
apply_update_mut_unset(p, body) ==
    LET req(f, old) == IF body[f] = None THEN old ELSE The(body[f])
        opt(f, old) == body[f]
    IN [_id |-> p._id,
        title |-> req("title", p.title),
        description |-> req("description", p.description),
        city |-> req("city", p.city),
        address |-> req("address", p.address),
        type |-> req("type", p.type),
        price_per_month |-> req("price_per_month", p.price_per_month),
        images |-> req("images", p.images),
        lat |-> opt("lat", p.lat),
        lng |-> opt("lng", p.lng),
        distance_to_university |->
            opt("distance_to_university", p.distance_to_university),
        available_from |-> opt("available_from", p.available_from),
        available_to |-> opt("available_to", p.available_to),
        host_id |-> p.host_id,
        is_active |-> req("is_active", p.is_active),
        updated_at |-> Some(now)]

\* {"$set": update, "$currentDate": {"updated_at": True}} on document p,
\* update being the fields of the body that are not None
apply_update(p, body) ==
    LET req(f, old) == IF body[f] = None THEN old ELSE The(body[f])
        opt(f, old) == IF body[f] = None THEN old ELSE body[f]
    IN [_id |-> p._id,
        title |-> req("title", p.title),
        description |-> req("description", p.description),
        city |-> req("city", p.city),
        address |-> req("address", p.address),
        type |-> req("type", p.type),
        price_per_month |-> req("price_per_month", p.price_per_month),
        images |-> req("images", p.images),
        lat |-> opt("lat", p.lat),
        lng |-> opt("lng", p.lng),
        distance_to_university |->
            opt("distance_to_university", p.distance_to_university),
        available_from |-> opt("available_from", p.available_from),
        available_to |-> opt("available_to", p.available_to),
        host_id |-> p.host_id,
        is_active |-> req("is_active", p.is_active),
        updated_at |-> Some(now)]

\* the positions of the documents of a collection with the given _id
IndexOf(coll, oid) == {i \in 1..Len(coll) : coll[i]._id = oid}
First(S) == CHOOSE i \in S : \A j \in S : i <= j
RemoveAt(coll, i) == SubSeq(coll, 1, i - 1) \o SubSeq(coll, i + 1, Len(coll))

\* the query without the is_active condition
list_query_mut_inactive(q, d) ==
    /\ (q.city # None /\ The(q.city) # "") => d.city = The(q.city)
    /\ (q.type # None /\ The(q.type) # "") => d.type = The(q.type)
    /\ q.min_price # None => d.price_per_month >= The(q.min_price)
    /\ q.max_price # None => d.price_per_month <= The(q.max_price)
    /\ (q.start_date # None /\ q.end_date # None) =>
          /\ \/ d.available_from = None
             \/ The(d.available_from) <= The(q.end_date)
          /\ \/ d.available_to = None
             \/ The(d.available_to) >= The(q.start_date)

\* the query asking that the availability contain the requested range
list_query_mut_contain(q, d) ==
    /\ d.is_active = TRUE
    /\ (q.city # None /\ The(q.city) # "") => d.city = The(q.city)
    /\ (q.type # None /\ The(q.type) # "") => d.type = The(q.type)
    /\ q.min_price # None => d.price_per_month >= The(q.min_price)
    /\ q.max_price # None => d.price_per_month <= The(q.max_price)
    /\ (q.start_date # None /\ q.end_date # None) =>
          /\ \/ d.available_from = None
             \/ The(d.available_from) <= The(q.start_date)
          /\ \/ d.available_to = None
             \/ The(d.available_to) >= The(q.end_date)

\* the query document of list_properties, as a predicate on a document
list_query(q, d) ==
    /\ d.is_active = TRUE
    /\ (q.city # None /\ The(q.city) # "") => d.city = The(q.city)
    /\ (q.type # None /\ The(q.type) # "") => d.type = The(q.type)
    /\ q.min_price # None => d.price_per_month >= The(q.min_price)
    /\ q.max_price # None => d.price_per_month <= The(q.max_price)
    /\ (q.start_date # None /\ q.end_date # None) =>
          /\ \/ d.available_from = None
             \/ The(d.available_from) <= The(q.end_date)
          /\ \/ d.available_to = None
             \/ The(d.available_to) >= The(q.start_date)

\* cursor.limit(n): 0 is no limit
limit(docs, n) == IF n = 0 \/ n >= Len(docs) THEN docs ELSE SubSeq(docs, 1, n)

list_properties(q) ==
    LET docs == limit(SelectSeq(property, LAMBDA d : list_query(q, d)), q.limit)
    IN /\ resp' = Response("list_properties", q, 200,
                           [i \in 1..Len(docs) |-> property_view(docs[i])])
       /\ UNCHANGED <<user, session, property, booking, now, nextId, issued>>

get_property(prop_id) ==
    LET req == [prop_id |-> prop_id]
        oid == to_object_id(prop_id)
        d == IF oid = None THEN {} ELSE IndexOf(property, The(oid))
    IN /\ resp' = IF oid = None THEN Response("get_property", req, 400, <<>>)
                  ELSE IF d = {} THEN Response("get_property", req, 404, <<>>)
                  ELSE Response("get_property", req, 200,
                                <<property_view(property[First(d)])>>)
       /\ UNCHANGED <<user, session, property, booking, now, nextId, issued>>

\* users and bookings are never deleted: every other identifier handed out
\* so far went to a property
PropsCreated == nextId - 1 - Len(user) - Len(booking)

\* create_property without the role test
create_property_mut_norole(body, authorization) ==
    LET req == [body |-> body, authorization |-> authorization]
        cur == get_current_user(authorization)
        u == The(cur.user)
        prop == PropertySchema(ObjectId(nextId), body, u.id)
    IN /\ IF cur.status # 200
          THEN /\ resp' = Response("create_property", req, cur.status, <<>>)
               /\ UNCHANGED <<property, nextId>>
          ELSE IF ~PropertySchemaValid(body)
          THEN \* pydantic ValidationError inside the handler
               /\ resp' = Response("create_property", req, 500, <<>>)
               /\ UNCHANGED <<property, nextId>>
          ELSE /\ PropsCreated < MaxProps
               /\ property' = Append(property, prop)
               /\ nextId' = nextId + 1
               /\ resp' = Response("create_property", req, 200,
                                   <<property_view(prop)>>)
       /\ UNCHANGED <<user, session, booking, now, issued>>

create_property(body, authorization) ==
    LET req == [body |-> body, authorization |-> authorization]
        cur == get_current_user(authorization)
        u == The(cur.user)
        prop == PropertySchema(ObjectId(nextId), body, u.id)
    IN /\ IF cur.status # 200
          THEN /\ resp' = Response("create_property", req, cur.status, <<>>)
               /\ UNCHANGED <<property, nextId>>
          ELSE IF u.role \notin {"host", "admin"}
          THEN /\ resp' = Response("create_property", req, 403, <<>>)
               /\ UNCHANGED <<property, nextId>>
          ELSE IF ~PropertySchemaValid(body)
          THEN \* pydantic ValidationError inside the handler
               /\ resp' = Response("create_property", req, 500, <<>>)
               /\ UNCHANGED <<property, nextId>>
          ELSE /\ PropsCreated < MaxProps
               /\ property' = Append(property, prop)
               /\ nextId' = nextId + 1
               /\ resp' = Response("create_property", req, 200,
                                   <<property_view(prop)>>)
       /\ UNCHANGED <<user, session, booking, now, issued>>

\* update_property that records the caller as the host of what it changed
update_property_mut_host(prop_id, body, authorization) ==
    LET req == [prop_id |-> prop_id, body |-> body,
                authorization |-> authorization]
        cur == get_current_user(authorization)
        u == The(cur.user)
        oid == to_object_id(prop_id)
        at == IF oid = None THEN {} ELSE IndexOf(property, The(oid))
        p == property[First(at)]
        q == [apply_update(p, body) EXCEPT !.host_id = u.id]
    IN /\ IF cur.status # 200
          THEN /\ resp' = Response("update_property", req, cur.status, <<>>)
               /\ UNCHANGED property
          ELSE IF oid = None
          THEN /\ resp' = Response("update_property", req, 400, <<>>)
               /\ UNCHANGED property
          ELSE IF at = {}
          THEN /\ resp' = Response("update_property", req, 404, <<>>)
               /\ UNCHANGED property
          ELSE IF u.role # "admin" /\ p.host_id # u.id
          THEN /\ resp' = Response("update_property", req, 403, <<>>)
               /\ UNCHANGED property
          ELSE IF body = NoUpdate
          THEN /\ resp' = Response("update_property", req, 200,
                                   <<[updated |-> FALSE]>>)
               /\ UNCHANGED property
          ELSE /\ property' = [property EXCEPT ![First(at)] = q]
               /\ resp' = Response("update_property", req, 200,
                                   <<property_view(q)>>)
       /\ UNCHANGED <<user, session, booking, now, nextId, issued>>

update_property(prop_id, body, authorization) ==
    LET req == [prop_id |-> prop_id, body |-> body,
                authorization |-> authorization]
        cur == get_current_user(authorization)
        u == The(cur.user)
        oid == to_object_id(prop_id)
        at == IF oid = None THEN {} ELSE IndexOf(property, The(oid))
        p == property[First(at)]
    IN /\ IF cur.status # 200
          THEN /\ resp' = Response("update_property", req, cur.status, <<>>)
               /\ UNCHANGED property
          ELSE IF oid = None
          THEN /\ resp' = Response("update_property", req, 400, <<>>)
               /\ UNCHANGED property
          ELSE IF at = {}
          THEN /\ resp' = Response("update_property", req, 404, <<>>)
               /\ UNCHANGED property
          ELSE IF u.role # "admin" /\ p.host_id # u.id
          THEN /\ resp' = Response("update_property", req, 403, <<>>)
               /\ UNCHANGED property
          ELSE IF body = NoUpdate
          THEN /\ resp' = Response("update_property", req, 200,
                                   <<[updated |-> FALSE]>>)
               /\ UNCHANGED property
          ELSE /\ property' = [property EXCEPT
                                 ![First(at)] = apply_update(p, body)]
               /\ resp' = Response("update_property", req, 200,
                                   <<property_view(apply_update(p, body))>>)
       /\ UNCHANGED <<user, session, booking, now, nextId, issued>>

\* delete_property testing the caller's role instead of ownership
delete_property_mut_role(prop_id, authorization) ==
    LET req == [prop_id |-> prop_id, authorization |-> authorization]
        cur == get_current_user(authorization)
        u == The(cur.user)
        oid == to_object_id(prop_id)
        at == IF oid = None THEN {} ELSE IndexOf(property, The(oid))
        p == property[First(at)]
    IN /\ IF cur.status # 200
          THEN /\ resp' = Response("delete_property", req, cur.status, <<>>)
               /\ UNCHANGED property
          ELSE IF oid = None
          THEN /\ resp' = Response("delete_property", req, 400, <<>>)
               /\ UNCHANGED property
          ELSE IF at = {}
          THEN /\ resp' = Response("delete_property", req, 404, <<>>)
               /\ UNCHANGED property
          ELSE IF u.role \notin {"host", "admin"}
          THEN /\ resp' = Response("delete_property", req, 403, <<>>)
               /\ UNCHANGED property
          ELSE /\ property' = RemoveAt(property, First(at))
               /\ resp' = Response("delete_property", req, 200,
                                   <<[deleted |-> TRUE]>>)
       /\ UNCHANGED <<user, session, booking, now, nextId, issued>>

\* delete_property that also removes the bookings of the property
delete_property_mut_cascade(prop_id, authorization) ==
    LET req == [prop_id |-> prop_id, authorization |-> authorization]
        cur == get_current_user(authorization)
        u == The(cur.user)
        oid == to_object_id(prop_id)
        at == IF oid = None THEN {} ELSE IndexOf(property, The(oid))
        p == property[First(at)]
    IN /\ IF cur.status # 200
          THEN /\ resp' = Response("delete_property", req, cur.status, <<>>)
               /\ UNCHANGED <<property, booking>>
          ELSE IF oid = None
          THEN /\ resp' = Response("delete_property", req, 400, <<>>)
               /\ UNCHANGED <<property, booking>>
          ELSE IF at = {}
          THEN /\ resp' = Response("delete_property", req, 404, <<>>)
               /\ UNCHANGED <<property, booking>>
          ELSE IF u.role # "admin" /\ p.host_id # u.id
          THEN /\ resp' = Response("delete_property", req, 403, <<>>)
               /\ UNCHANGED <<property, booking>>
          ELSE /\ property' = RemoveAt(property, First(at))
               /\ booking' = SelectSeq(booking,
                                LAMBDA b : b.property_id # The(oid))
               /\ resp' = Response("delete_property", req, 200,
                                   <<[deleted |-> TRUE]>>)
       /\ UNCHANGED <<user, session, now, nextId, issued>>

delete_property(prop_id, authorization) ==
    LET req == [prop_id |-> prop_id, authorization |-> authorization]
        cur == get_current_user(authorization)
        u == The(cur.user)
        oid == to_object_id(prop_id)
        at == IF oid = None THEN {} ELSE IndexOf(property, The(oid))
        p == property[First(at)]
    IN /\ IF cur.status # 200
          THEN /\ resp' = Response("delete_property", req, cur.status, <<>>)
               /\ UNCHANGED property
          ELSE IF oid = None
          THEN /\ resp' = Response("delete_property", req, 400, <<>>)
               /\ UNCHANGED property
          ELSE IF at = {}
          THEN /\ resp' = Response("delete_property", req, 404, <<>>)
               /\ UNCHANGED property
          ELSE IF u.role # "admin" /\ p.host_id # u.id
          THEN /\ resp' = Response("delete_property", req, 403, <<>>)
               /\ UNCHANGED property
          ELSE /\ property' = RemoveAt(property, First(at))
               /\ resp' = Response("delete_property", req, 200,
                                   <<[deleted |-> TRUE]>>)
       /\ UNCHANGED <<user, session, booking, now, nextId, issued>>

----------------------------------------------------------------------------
(* Admin *)

admin_stats(authorization) ==
    LET req == [authorization |-> authorization]
        cur == get_current_user(authorization)
    IN /\ resp' =
            IF cur.status # 200 THEN Response("admin_stats", req, cur.status, <<>>)
            ELSE IF The(cur.user).role # "admin"
            THEN Response("admin_stats", req, 403, <<>>)
            ELSE Response("admin_stats", req, 200,
                   <<[users |-> Len(user),
                      hosts |-> Len(SelectSeq(user, LAMBDA d : d.role = "host")),
                      properties |-> Len(property),
                      bookings |-> Len(booking)]>>)
       /\ UNCHANGED <<user, session, property, booking, now, nextId, issued>>

admin_users(authorization) ==
    LET req == [authorization |-> authorization]
        cur == get_current_user(authorization)
    IN /\ resp' =
            IF cur.status # 200 THEN Response("admin_users", req, cur.status, <<>>)
            ELSE IF The(cur.user).role # "admin"
            THEN Response("admin_users", req, 403, <<>>)
            ELSE Response("admin_users", req, 200,
                          [i \in 1..Len(user) |-> user_safe(user[i])])
       /\ UNCHANGED <<user, session, property, booking, now, nextId, issued>>

\* the admin delete with delete_property's ownership test
admin_delete_property_mut_owner(prop_id, authorization) ==
    LET req == [prop_id |-> prop_id, authorization |-> authorization]
        cur == get_current_user(authorization)
        oid == to_object_id(prop_id)
        at == IF oid = None THEN {} ELSE IndexOf(property, The(oid))
    IN /\ IF cur.status # 200
          THEN /\ resp' = Response("admin_delete_property", req, cur.status, <<>>)
               /\ UNCHANGED property
          ELSE IF /\ The(cur.user).role # "admin"
                  /\ \A i \in at : property[i].host_id # The(cur.user).id
          THEN /\ resp' = Response("admin_delete_property", req, 403, <<>>)
               /\ UNCHANGED property
          ELSE IF oid = None
          THEN /\ resp' = Response("admin_delete_property", req, 400, <<>>)
               /\ UNCHANGED property
          ELSE /\ property' = IF at = {} THEN property
                              ELSE RemoveAt(property, First(at))
               /\ resp' = Response("admin_delete_property", req, 200,
                                   <<[deleted |-> TRUE]>>)
       /\ UNCHANGED <<user, session, booking, now, nextId, issued>>

admin_delete_property(prop_id, authorization) ==
    LET req == [prop_id |-> prop_id, authorization |-> authorization]
        cur == get_current_user(authorization)
        oid == to_object_id(prop_id)
        at == IF oid = None THEN {} ELSE IndexOf(property, The(oid))
    IN /\ IF cur.status # 200
          THEN /\ resp' = Response("admin_delete_property", req, cur.status, <<>>)
               /\ UNCHANGED property
          ELSE IF The(cur.user).role # "admin"
          THEN /\ resp' = Response("admin_delete_property", req, 403, <<>>)
               /\ UNCHANGED property
          ELSE IF oid = None
          THEN /\ resp' = Response("admin_delete_property", req, 400, <<>>)
               /\ UNCHANGED property
          ELSE /\ property' = IF at = {} THEN property
                              ELSE RemoveAt(property, First(at))
               /\ resp' = Response("admin_delete_property", req, 200,
                                   <<[deleted |-> TRUE]>>)
       /\ UNCHANGED <<user, session, booking, now, nextId, issued>>

----------------------------------------------------------------------------
(* Bookings *)

BookingCreate(property_id, start_date, end_date, guests) ==
    [property_id |-> property_id, start_date |-> start_date,
     end_date |-> end_date, guests |-> guests]

GUESTS_MIN == 1
GUESTS_MAX == 10

\* Field(1, ge=1, le=10) on Booking.guests: the schema's only constraint
BookingSchemaValid(body) ==
    body.guests >= GUESTS_MIN /\ body.guests <= GUESTS_MAX

\* the booking stored as confirmed right away
BookingSchema_mut_status(booking_id, body, user_id) ==
    [_id |-> booking_id, property_id |-> ObjectId(body.property_id[2]),
     user_id |-> ObjectId(user_id[2]), start_date |-> body.start_date,
     end_date |-> body.end_date, guests |-> body.guests,
     status |-> "confirmed"]

\* BookingSchema(...).model_dump() with both references as ObjectId, under _id
BookingSchema(booking_id, body, user_id) ==
    [_id |-> booking_id, property_id |-> ObjectId(body.property_id[2]),
     user_id |-> ObjectId(user_id[2]), start_date |-> body.start_date,
     end_date |-> body.end_date, guests |-> body.guests,
     status |-> "pending"]

\* id for _id, and both references stringified
booking_view(b) ==
    [id |-> str(b._id), property_id |-> str(b.property_id),
     user_id |-> str(b.user_id), start_date |-> b.start_date,
     end_date |-> b.end_date, guests |-> b.guests, status |-> b.status]

\* create_booking refusing a range that overlaps a stored booking
create_booking_mut_conflict(body, authorization) ==
    LET req == [body |-> body, authorization |-> authorization]
        cur == get_current_user(authorization)
        u == The(cur.user)
        oid == to_object_id(body.property_id)
        prop == IF oid = None THEN {} ELSE IndexOf(property, The(oid))
        b == BookingSchema(ObjectId(nextId), body, u.id)
    IN /\ IF cur.status # 200
          THEN /\ resp' = Response("create_booking", req, cur.status, <<>>)
               /\ UNCHANGED <<booking, nextId>>
          ELSE IF body.end_date < body.start_date
          THEN /\ resp' = Response("create_booking", req, 400, <<>>)
               /\ UNCHANGED <<booking, nextId>>
          ELSE IF oid = None
          THEN /\ resp' = Response("create_booking", req, 400, <<>>)
               /\ UNCHANGED <<booking, nextId>>
          ELSE IF prop = {}
          THEN /\ resp' = Response("create_booking", req, 404, <<>>)
               /\ UNCHANGED <<booking, nextId>>
          ELSE IF \E i \in 1..Len(booking) :
                     /\ booking[i].property_id = The(oid)
                     /\ booking[i].start_date <= body.end_date
                     /\ body.start_date <= booking[i].end_date
          THEN /\ resp' = Response("create_booking", req, 400, <<>>)
               /\ UNCHANGED <<booking, nextId>>
          ELSE IF ~BookingSchemaValid(body)
          THEN \* pydantic ValidationError inside the handler
               /\ resp' = Response("create_booking", req, 500, <<>>)
               /\ UNCHANGED <<booking, nextId>>
          ELSE /\ Len(booking) < MaxBookings
               /\ booking' = Append(booking, b)
               /\ nextId' = nextId + 1
               /\ resp' = Response("create_booking", req, 200,
                                   <<booking_view(b)>>)
       /\ UNCHANGED <<user, session, property, now, issued>>

create_booking(body, authorization) ==
    LET req == [body |-> body, authorization |-> authorization]
        cur == get_current_user(authorization)
        u == The(cur.user)
        oid == to_object_id(body.property_id)
        prop == IF oid = None THEN {} ELSE IndexOf(property, The(oid))
        b == BookingSchema(ObjectId(nextId), body, u.id)
    IN /\ IF cur.status # 200
          THEN /\ resp' = Response("create_booking", req, cur.status, <<>>)
               /\ UNCHANGED <<booking, nextId>>
          ELSE IF body.end_date < body.start_date
          THEN /\ resp' = Response("create_booking", req, 400, <<>>)
               /\ UNCHANGED <<booking, nextId>>
          ELSE IF oid = None
          THEN /\ resp' = Response("create_booking", req, 400, <<>>)
               /\ UNCHANGED <<booking, nextId>>
          ELSE IF prop = {}
          THEN /\ resp' = Response("create_booking", req, 404, <<>>)
               /\ UNCHANGED <<booking, nextId>>
          ELSE IF ~BookingSchemaValid(body)
          THEN \* pydantic ValidationError inside the handler
               /\ resp' = Response("create_booking", req, 500, <<>>)
               /\ UNCHANGED <<booking, nextId>>
          ELSE /\ Len(booking) < MaxBookings
               /\ booking' = Append(booking, b)
               /\ nextId' = nextId + 1
               /\ resp' = Response("create_booking", req, 200,
                                   <<booking_view(b)>>)
       /\ UNCHANGED <<user, session, property, now, issued>>

my_bookings(authorization) ==
    LET req == [authorization |-> authorization]
        cur == get_current_user(authorization)
        cur_docs == SelectSeq(booking,
                      LAMBDA b : b.user_id = ObjectId(The(cur.user).id[2]))
    IN /\ resp' =
            IF cur.status # 200 THEN Response("my_bookings", req, cur.status, <<>>)
            ELSE Response("my_bookings", req, 200,
                          [i \in 1..Len(cur_docs) |-> booking_view(cur_docs[i])])
       /\ UNCHANGED <<user, session, property, booking, now, nextId, issued>>

\* host_bookings showing an admin the bookings of every stored property
host_bookings_mut_admin(authorization) ==
    LET req == [authorization |-> authorization]
        cur == get_current_user(authorization)
        u == The(cur.user)
        prop_ids == {property[i]._id : i \in
                       {j \in 1..Len(property) :
                          u.role = "admin" \/ property[j].host_id = u.id}}
        cur_docs == SelectSeq(booking, LAMBDA b : b.property_id \in prop_ids)
    IN /\ resp' =
            IF cur.status # 200
            THEN Response("host_bookings", req, cur.status, <<>>)
            ELSE IF u.role \notin {"host", "admin"}
            THEN Response("host_bookings", req, 403, <<>>)
            ELSE Response("host_bookings", req, 200,
                          [i \in 1..Len(cur_docs) |-> booking_view(cur_docs[i])])
       /\ UNCHANGED <<user, session, property, booking, now, nextId, issued>>

host_bookings(authorization) ==
    LET req == [authorization |-> authorization]
        cur == get_current_user(authorization)
        u == The(cur.user)
        prop_ids == {property[i]._id : i \in
                       {j \in 1..Len(property) : property[j].host_id = u.id}}
        cur_docs == SelectSeq(booking, LAMBDA b : b.property_id \in prop_ids)
    IN /\ resp' =
            IF cur.status # 200
            THEN Response("host_bookings", req, cur.status, <<>>)
            ELSE IF u.role \notin {"host", "admin"}
            THEN Response("host_bookings", req, 403, <<>>)
            ELSE Response("host_bookings", req, 200,
                          [i \in 1..Len(cur_docs) |-> booking_view(cur_docs[i])])
       /\ UNCHANGED <<user, session, property, booking, now, nextId, issued>>

----------------------------------------------------------------------------
(* The listing routes start from a populated user base: a host, an admin, *)
(* a plain user and a second host have signed up, in this order, at time  *)
(* 0 (four signup steps of Spec), and each holds the token signup gave.   *)

SeedBodies == <<SignupReq("a@x", "pw1", "host"), SignupReq("b@x", "pw2", "admin"),
                SignupReq("c@x", "pw1", "user"), SignupReq("d@x", "pw1", "host")>>
Tok(k) == <<"tok", k>>

InitSeeded ==
    /\ user = [k \in 1..Len(SeedBodies) |-> UserSchema(ObjectId(k), SeedBodies[k])]
    /\ session = [k \in 1..Len(SeedBodies) |-> SessionSchema(ObjectId(k), Tok(k), 0)]
    /\ property = <<>>
    /\ booking = <<>>
    /\ now = 0
    /\ nextId = Len(SeedBodies) + 1
    /\ resp = NoResponse
    /\ inflight = NoInflight
    /\ issued = {[token |-> Tok(k), id |-> str(ObjectId(k)),
                  email |-> SeedBodies[k].email, via |-> "signup", at |-> 0] :
                 k \in 1..Len(SeedBodies)}

Host1 == Bearer(Tok(1))
Admin == Bearer(Tok(2))
Plain == Bearer(Tok(3))
Host2 == Bearer(Tok(4))
Users == {Host1, Admin, Plain, Host2}
Callers == Users \cup {None}

\* identifier strings a request may carry: those of the stored properties,
\* one that names nothing (not handed out yet), and a malformed one
PropIds == {str(property[i]._id) : i \in 1..Len(property)}
             \cup {<<"str", nextId>>, BadIdStr}

Upd1(f, v) == [NoUpdate EXCEPT ![f] = Some(v)]

(* Access control: who may create, change and remove what *)
AccessListing == PropertyCreate("t1", "Istanbul", "room", 1000, None, None)
AccessRejected == PropertyCreate("t1", "Istanbul", "room", -1, None, None)
AccessUpdate == {NoUpdate, Upd1("price_per_month", 1500)}

NextAccess ==
    \/ Serial /\ \E body \in {AccessListing, AccessRejected}, c \in Callers :
                  create_property(body, c)
    \/ Serial /\ \E id \in PropIds, body \in AccessUpdate, c \in Callers :
                  update_property(id, body, c)
    \/ Serial /\ \E id \in PropIds, c \in Callers : delete_property(id, c)
    \/ Serial /\ \E c \in Callers : admin_stats(c)
    \/ Serial /\ \E c \in Callers : admin_users(c)
    \/ Serial /\ \E id \in PropIds, c \in Callers : admin_delete_property(id, c)
    \/ Deliver

SpecAccess == InitSeeded /\ [][NextAccess]_vars

(* Update: what an authorized update writes *)
UpdateCreate == {PropertyCreate("t1", "Istanbul", "room", 1000, None, Some(2))}
UpdateBodies ==
    {NoUpdate, Upd1("price_per_month", 1500),
     [NoUpdate EXCEPT !.title = Some("t2"), !.is_active = Some(FALSE)],
     [NoUpdate EXCEPT !.description = Some("d2"),
        !.city = Some("Ankara"), !.address = Some("a2"),
        !.type = Some("flat"), !.images = Some(<<"u">>),
        !.lat = Some(41), !.lng = Some(29),
        !.distance_to_university = Some("1km"),
        !.available_from = Some(1), !.available_to = Some(3)]}

NextUpdate ==
    \/ Serial /\ \E body \in UpdateCreate : create_property(body, Host1)
    \/ Serial /\ \E id \in PropIds, body \in UpdateBodies, c \in {Host1, Admin} :
                  update_property(id, body, c)
    \/ Deliver

SpecUpdate == InitSeeded /\ [][NextUpdate]_vars

(* Search: what the public listing and fetch return *)
Dates == 1..3
SearchCreate == {PropertyCreate("t1", "Istanbul", "room", 1000, None, None),
                 PropertyCreate("t2", "Ankara", "flat", 2000, Some(2), Some(2))}
SearchUpdate == {Upd1("is_active", FALSE), Upd1("is_active", TRUE),
                 Upd1("available_to", 1), Upd1("available_from", 3)}

Query(city, type, min_price, max_price, start_date, end_date, n) ==
    [city |-> city, type |-> type, min_price |-> min_price,
     max_price |-> max_price, start_date |-> start_date,
     end_date |-> end_date, limit |-> n]

DEFAULT_LIMIT == 50

Queries ==
    {Query(None, None, None, None, s, e, n) :
        s \in {None} \cup {Some(x) : x \in Dates},
        e \in {None} \cup {Some(x) : x \in Dates},
        n \in {DEFAULT_LIMIT, 1, 0}}
    \cup {Query(Some("Ankara"), None, None, None, None, None, DEFAULT_LIMIT),
          Query(Some(""), Some("flat"), None, None, None, None, DEFAULT_LIMIT),
          Query(None, None, Some(1500), None, None, None, DEFAULT_LIMIT),
          Query(None, None, None, Some(1500), Some(1), Some(3), DEFAULT_LIMIT)}

NextSearch ==
    \/ Serial /\ \E body \in SearchCreate : create_property(body, Host1)
    \/ Serial /\ \E id \in PropIds, body \in SearchUpdate : update_property(id, body, Host1)
    \/ Serial /\ \E id \in PropIds : delete_property(id, Host1)
    \/ Serial /\ \E q \in Queries : list_properties(q)
    \/ Serial /\ \E id \in PropIds : get_property(id)
    \/ Deliver

SpecSearch == InitSeeded /\ [][NextSearch]_vars

(* Bookings: requests against one listing of each host.  The two hosts *)
(* have each created a listing (two create_property steps of SpecAccess). *)
BookingListing == PropertyCreate("t1", "Istanbul", "room", 1000, None, None)
Listing1 == Len(SeedBodies) + 1
Listing2 == Len(SeedBodies) + 2

InitBooked ==
    /\ user = [k \in 1..Len(SeedBodies) |-> UserSchema(ObjectId(k), SeedBodies[k])]
    /\ session = [k \in 1..Len(SeedBodies) |-> SessionSchema(ObjectId(k), Tok(k), 0)]
    /\ property = <<PropertySchema(ObjectId(Listing1), BookingListing, str(ObjectId(1))),
                    PropertySchema(ObjectId(Listing2), BookingListing, str(ObjectId(4)))>>
    /\ booking = <<>>
    /\ now = 0
    /\ nextId = Listing2 + 1
    /\ resp = NoResponse
    /\ inflight = NoInflight
    /\ issued = {[token |-> Tok(k), id |-> str(ObjectId(k)),
                  email |-> SeedBodies[k].email, via |-> "signup", at |-> 0] :
                 k \in 1..Len(SeedBodies)}

BookingIds == {<<"str", Listing1>>, <<"str", Listing2>>, <<"str", Listing2 + 1>>,
               BadIdStr}
BookingBodies ==
    {BookingCreate(id, se[1], se[2], 1) :
        id \in BookingIds, se \in {<<1, 3>>, <<2, 2>>, <<3, 1>>}}
    \cup {BookingCreate(<<"str", Listing1>>, 1, 3, g) : g \in {0, 10, 11}}

NextBooking ==
    \/ Serial /\ \E id \in BookingIds : delete_property(id, Host1)
    \/ Serial /\ \E body \in BookingBodies, c \in {None, Plain} : create_booking(body, c)
    \/ Serial /\ create_booking(BookingCreate(<<"str", Listing1>>, 2, 2, 2), Host2)
    \/ Serial /\ \E c \in Callers : my_bookings(c)
    \/ Serial /\ \E c \in Callers : host_bookings(c)
    \/ Deliver

SpecBooking == InitBooked /\ [][NextBooking]_vars

----------------------------------------------------------------------------
(* Claims on the listing, admin and booking routes *)

\* the stored user a header authenticates: the one its token was issued to,
\* while the session is unexpired
CallerUser(authorization) ==
    {user[k] : k \in {j \in 1..Len(user) :
        \E g \in issued :
           /\ authorization = Bearer(g.token)
           /\ g.id = str(user[j]._id)
           /\ now < g.at + SESSION_DAYS}}

\* the positions of the stored property a request's id string names
Target(prop_id) == {i \in 1..Len(property) : str(property[i]._id) = prop_id}

(* C4: for an authenticated caller whose role is not admin, the three     *)
(* admin routes answer 403, also when the caller hosts the targeted       *)
(* property, and the property collection is unchanged.                    *)
C4_AdminOnly ==
    [][resp'.op \in {"admin_stats", "admin_users", "admin_delete_property"} =>
        LET cu == CallerUser(resp'.req.authorization)
        IN (cu # {} /\ The(cu).role # "admin") =>
              resp'.status = 403 /\ property' = property
    ]_vars

\* a host was refused the admin delete of a property it hosts
C4_Witness ==
    /\ resp.op = "admin_delete_property"
    /\ resp.status = 403
    /\ \E u \in CallerUser(resp.req.authorization) :
       \E i \in Target(resp.req.prop_id) : property[i].host_id = str(u._id)

(* C5: an update or delete of an existing property changes the property  *)
(* collection only when the caller is an admin or the property's host;    *)
(* every other authenticated caller gets 403 and nothing changes.         *)
C5_OwnerOrAdmin ==
    [][resp'.op \in {"update_property", "delete_property"} =>
        LET cu == CallerUser(resp'.req.authorization)
            t == Target(resp'.req.prop_id)
            allowed == \E u \in cu :
                          \/ u.role = "admin"
                          \/ \E i \in t : property[i].host_id = str(u._id)
        IN /\ property' # property => allowed /\ t # {}
           /\ (cu # {} /\ t # {} /\ ~allowed) =>
                 resp'.status = 403 /\ property' = property
           /\ (allowed /\ t # {} /\ resp'.op = "delete_property") =>
                 /\ resp'.status = 200
                 /\ \A i \in 1..Len(property') :
                       str(property'[i]._id) # resp'.req.prop_id
    ]_vars

\* a host that owns another property was refused on a property it does not own
C5_Witness ==
    /\ resp.op \in {"update_property", "delete_property"}
    /\ resp.status = 403
    /\ \E u \in CallerUser(resp.req.authorization) :
          /\ u.role = "host"
          /\ \E i \in 1..Len(property) : property[i].host_id = str(u._id)
          /\ \E i \in Target(resp.req.prop_id) : property[i].host_id # str(u._id)

(* C6: create_property by a caller with role user answers 403 and stores  *)
(* nothing; by a host or admin, with a payload the Property schema        *)
(* accepts, it stores exactly one new property, made of the payload, with *)
(* host_id the caller's id and is_active true; a payload the schema       *)
(* refuses stores nothing.                                                *)
C6_CreateByRole ==
    [][resp'.op = "create_property" =>
        LET cu == CallerUser(resp'.req.authorization)
            body == resp'.req.body
            new == property'[Len(property')]
        IN \A u \in cu :
           /\ u.role = "user" => resp'.status = 403 /\ property' = property
           /\ (u.role \in {"host", "admin"} /\ body.price_per_month >= 0) =>
                 /\ resp'.status = 200
                 /\ Len(property') = Len(property) + 1
                 /\ IsPrefix(property, property')
                 /\ new.host_id = str(u._id)
                 /\ new.is_active = TRUE
                 /\ \A i \in 1..Len(property) : property[i]._id # new._id
                 /\ \A f \in DOMAIN body : new[f] = body[f]
           /\ body.price_per_month < 0 => property' = property
    ]_vars

\* a plain user was refused while a host's and an admin's listings are stored
C6_Witness ==
    /\ resp.op = "create_property"
    /\ resp.status = 403
    /\ \E u \in CallerUser(resp.req.authorization) : u.role = "user"
    /\ \E i, j \in 1..Len(property) :
          /\ property[i].host_id = str(ObjectId(1))
          /\ property[j].host_id = str(ObjectId(2))

RequiredFields == {"title", "description", "city", "address", "type",
                   "price_per_month", "images", "is_active"}
OptionalFields == {"lat", "lng", "distance_to_university", "available_from",
                   "available_to"}
Provided(body) == {f \in DOMAIN body : body[f] # None}

(* C7: an authorized update of an existing property that provides fields  *)
(* sets exactly those fields and updated_at, and leaves every other field *)
(* of it and every other property as they were; one that provides no      *)
(* field answers {updated: false} and writes nothing.                     *)
C7_UpdateFrame ==
    [][resp'.op = "update_property" =>
        LET cu == CallerUser(resp'.req.authorization)
            body == resp'.req.body
            t == Target(resp'.req.prop_id)
            allowed == \E u \in cu :
                          \/ u.role = "admin"
                          \/ \E i \in t : property[i].host_id = str(u._id)
        IN (allowed /\ t # {}) =>
             IF Provided(body) = {}
             THEN /\ resp'.status = 200
                  /\ resp'.body = <<[updated |-> FALSE]>>
                  /\ property' = property
             ELSE /\ resp'.status = 200
                  /\ Len(property') = Len(property)
                  /\ \A j \in 1..Len(property) : j \notin t =>
                        property'[j] = property[j]
                  /\ \A i \in t :
                        /\ \A f \in RequiredFields :
                              property'[i][f] = IF f \in Provided(body)
                                                THEN The(body[f])
                                                ELSE property[i][f]
                        /\ \A f \in OptionalFields :
                              property'[i][f] = IF f \in Provided(body)
                                                THEN body[f]
                                                ELSE property[i][f]
                        /\ property'[i]._id = property[i]._id
                        /\ property'[i].host_id = property[i].host_id
                        /\ property'[i].updated_at = Some(now)
                        /\ resp'.body[1].id = resp'.req.prop_id
    ]_vars

\* the owner changed only the price of one of two stored properties
C7_Witness ==
    /\ resp.op = "update_property"
    /\ resp.status = 200
    /\ Provided(resp.req.body) = {"price_per_month"}
    /\ Len(property) = 2
    /\ \E i \in Target(resp.req.prop_id) :
          /\ property[i].price_per_month = 1500
          /\ property[i].title = "t1"
          /\ property[i].available_to = Some(2)
          /\ property[i].updated_at # None
    /\ \E j \in 1..Len(property) : property[j].updated_at = None

(* C8: create_booking with end_date before start_date answers 400 and     *)
(* stores nothing; with a valid range, an existing property and a guest   *)
(* count the Booking schema accepts it stores a new pending booking       *)
(* whatever bookings exist, so overlapping bookings of one property       *)
(* coexist; a guest count the schema refuses stores nothing.              *)
C8_BookingCreate ==
    [][resp'.op = "create_booking" =>
        LET cu == CallerUser(resp'.req.authorization)
            body == resp'.req.body
            new == booking'[Len(booking')]
        IN \A u \in cu :
           /\ body.end_date < body.start_date =>
                 resp'.status = 400 /\ booking' = booking
           /\ (/\ body.end_date >= body.start_date
               /\ Target(body.property_id) # {}
               /\ body.guests \in GUESTS_MIN..GUESTS_MAX) =>
                 /\ resp'.status = 200
                 /\ Len(booking') = Len(booking) + 1
                 /\ IsPrefix(booking, booking')
                 /\ str(new.property_id) = body.property_id
                 /\ \A i \in 1..Len(booking) : booking[i]._id # new._id
                 /\ new.user_id = u._id
                 /\ new.start_date = body.start_date
                 /\ new.end_date = body.end_date
                 /\ new.status = "pending"
           /\ body.guests \notin GUESTS_MIN..GUESTS_MAX => booking' = booking
    ]_vars

\* a booking was stored inside the date range of an earlier booking of the
\* same property
C8_Witness ==
    /\ resp.op = "create_booking"
    /\ resp.status = 200
    /\ \E i, j \in 1..Len(booking) :
          /\ i < j
          /\ j = Len(booking)
          /\ booking[i].property_id = booking[j].property_id
          /\ booking[i].start_date <= booking[j].start_date
          /\ booking[j].end_date <= booking[i].end_date

(* C9: the public listing returns only stored properties whose is_active  *)
(* is true; the fetch by id returns any stored property, active or not.   *)
C9_ActiveOnly ==
    /\ resp.op = "list_properties" =>
          \A k \in 1..Len(resp.body) :
             \E i \in 1..Len(property) :
                /\ str(property[i]._id) = resp.body[k].id
                /\ property[i].is_active = TRUE
                /\ resp.body[k].is_active = TRUE
    /\ resp.op = "get_property" =>
          \A i \in Target(resp.req.prop_id) :
             /\ resp.status = 200
             /\ Len(resp.body) = 1
             /\ resp.body[1].id = resp.req.prop_id
             /\ resp.body[1].is_active = property[i].is_active
             /\ resp.body[1].title = property[i].title

\* the listing returned a re-activated property and left out an inactive one
C9_Witness ==
    /\ resp.op = "list_properties"
    /\ Len(resp.body) = 1
    /\ \E i \in 1..Len(property) :
          /\ str(property[i]._id) = resp.body[1].id
          /\ property[i].updated_at # None
    /\ \E i \in 1..Len(property) : ~property[i].is_active

Listed(d) == \E k \in 1..Len(resp.body) : resp.body[k].id = str(d._id)

Available(d, q) ==
    /\ d.available_from = None \/ The(d.available_from) <= The(q.end_date)
    /\ d.available_to = None \/ The(d.available_to) >= The(q.start_date)

\* the city, type and price filters of a search, which the dates leave alone
Matches(d, q) ==
    /\ (q.city # None /\ The(q.city) # "") => d.city = The(q.city)
    /\ (q.type # None /\ The(q.type) # "") => d.type = The(q.type)
    /\ q.min_price # None => d.price_per_month >= The(q.min_price)
    /\ q.max_price # None => d.price_per_month <= The(q.max_price)

(* C10: with both start_date and end_date, an active property that passes *)
(* the other filters is listed if and only if (available_from is absent   *)
(* or <= end_date) and (available_to is absent or >= start_date), short of *)
(* the limit, and nothing listed fails that condition; with one or        *)
(* neither date no availability condition is applied.                     *)
C10_Availability ==
    resp.op = "list_properties" =>
       LET q == resp.req
           dated == q.start_date # None /\ q.end_date # None
           short == q.limit = 0 \/ Len(resp.body) < q.limit
       IN \A i \in 1..Len(property) :
             /\ (dated /\ Listed(property[i])) => Available(property[i], q)
             /\ (short /\ property[i].is_active /\ Matches(property[i], q)) =>
                   (Listed(property[i]) <=> (dated => Available(property[i], q)))

\* a search for [3, 3] listed the unbounded property and left out the one
\* whose available_to is 2
C10_Witness ==
    /\ resp.op = "list_properties"
    /\ resp.req.start_date = Some(3)
    /\ resp.req.end_date = Some(3)
    /\ \E i, j \in 1..Len(property) :
          /\ property[i].available_from = None
          /\ property[i].available_to = None
          /\ Listed(property[i])
          /\ property[j].is_active
          /\ property[j].available_to = Some(2)
          /\ ~Listed(property[j])

----------------------------------------------------------------------------
(* Validation: what the handlers do with out-of-range numbers *)

ValidationUpdate == {Upd1("price_per_month", 1500), Upd1("price_per_month", -1)}
ValidationBookings ==
    {BookingCreate(id, 1, 3, g) : id \in PropIds, g \in {0, 1, 10, 11}}

NextValidation ==
    \/ Serial /\ \E body \in {AccessListing, AccessRejected}, c \in {Host1, Plain} :
                  create_property(body, c)
    \/ Serial /\ \E id \in PropIds, body \in ValidationUpdate :
                  update_property(id, body, Host1)
    \/ Serial /\ \E body \in ValidationBookings : create_booking(body, Plain)
    \/ Deliver

SpecValidation == InitSeeded /\ [][NextValidation]_vars

(* C11: in every reachable state every stored property has                *)
(* price_per_month >= 0, after any sequence of create-property and        *)
(* update-property requests.                                              *)
C11_PriceNonNegative ==
    \A i \in 1..Len(property) : property[i].price_per_month >= 0

(* C12: a create_property by a host with a negative price_per_month, and  *)
(* a create_booking by a signed-in caller for a stored property and a     *)
(* valid range with guests outside 1..10, is answered 400 and writes      *)
(* nothing.                                                               *)
C12_InvalidInput ==
    [][LET cu == CallerUser(resp'.req.authorization)
           body == resp'.req.body
       IN /\ (/\ resp'.op = "create_property"
               /\ \E u \in cu : u.role \in {"host", "admin"}
               /\ body.price_per_month < 0) =>
                 resp'.status = 400 /\ property' = property
          /\ (/\ resp'.op = "create_booking"
               /\ cu # {}
               /\ body.end_date >= body.start_date
               /\ Target(body.property_id) # {}
               /\ body.guests \notin GUESTS_MIN..GUESTS_MAX) =>
                 resp'.status = 400 /\ booking' = booking
    ]_vars

----------------------------------------------------------------------------
(* Lifecycle: what happens to listings and bookings over their lives *)

\* PropertyUpdate(**json): the declared fields of the request body; pydantic
\* ignores a key the model does not declare
PropertyUpdate(raw) ==
    [f \in DOMAIN NoUpdate |-> IF f \in DOMAIN raw THEN raw[f] ELSE None]

LifecycleUpdates ==
    {[title |-> Some("t2"), host_id |-> Some(str(ObjectId(4)))],
     [host_id |-> Some(str(ObjectId(4)))]}

NextLifecycle ==
    \/ Serial /\ \E c \in {Host1, Admin} : create_property(AccessListing, c)
    \/ Serial /\ \E id \in PropIds, raw \in LifecycleUpdates, c \in {Host1, Admin} :
                  update_property(id, PropertyUpdate(raw), c)
    \/ Serial /\ \E id \in PropIds : delete_property(id, Host1)
    \/ Serial /\ \E id \in PropIds : admin_delete_property(id, Admin)
    \/ Serial /\ \E id \in PropIds : create_booking(BookingCreate(id, 1, 3, 1), Plain)
    \/ Serial /\ \E c \in {Plain, Host2} : my_bookings(c)
    \/ Serial /\ \E c \in {Host1, Admin, Plain} : host_bookings(c)
    \/ Deliver

SpecLifecycle == InitSeeded /\ [][NextLifecycle]_vars

(* C13: every stored booking has status pending, and no step changes a    *)
(* field of a stored booking or removes one: the booking collection only  *)
(* grows.                                                                 *)
C13_BookingsOnlyGrow ==
    [][/\ IsPrefix(booking, booking')
       /\ \A i \in 1..Len(booking') : booking'[i].status = "pending"
    ]_vars

\* the property of a stored booking was changed or removed after the booking
C13_Witness ==
    /\ resp.op \in {"update_property", "delete_property", "admin_delete_property"}
    /\ resp.status = 200
    /\ Len(booking) = MaxBookings
    /\ \E i \in 1..Len(booking) : str(booking[i].property_id) = resp.req.prop_id

\* the bookings a user made, as my_bookings renders them
BookingsOf(u) ==
    LET mine == SelectSeq(booking, LAMBDA b : str(b.user_id) = str(u._id))
    IN [k \in 1..Len(mine) |->
          [id |-> str(mine[k]._id), property_id |-> str(mine[k].property_id),
           user_id |-> str(u._id), start_date |-> mine[k].start_date,
           end_date |-> mine[k].end_date, guests |-> mine[k].guests,
           status |-> mine[k].status]]

(* C15: deleting a property, by its host or by an admin through either    *)
(* route, leaves the booking collection as it was, and my_bookings        *)
(* returns to a user every booking that user made, those of deleted       *)
(* properties included.                                                   *)
C15_NoCascade ==
    [][/\ resp'.op \in {"delete_property", "admin_delete_property"} =>
             booking' = booking
       /\ resp'.op = "my_bookings" =>
             \A u \in CallerUser(resp'.req.authorization) :
                resp'.status = 200 /\ resp'.body = BookingsOf(u)
    ]_vars

\* a user was shown its booking of a property that is no longer stored
C15_Witness ==
    /\ resp.op = "my_bookings"
    /\ resp.status = 200
    /\ \E k \in 1..Len(resp.body) : Target(resp.body[k].property_id) = {}

\* the stored bookings of the stored properties a user hosts
HostedBookings(u) ==
    SelectSeq(booking,
       LAMBDA b : \E i \in 1..Len(property) :
                     /\ property[i]._id = b.property_id
                     /\ property[i].host_id = str(u._id))

(* C17: host_bookings answers 403 to a signed-in caller whose role is     *)
(* neither host nor admin, and otherwise returns exactly the bookings of  *)
(* the stored properties whose host_id is the caller's id: an admin sees  *)
(* only those of its own listings, and nobody sees the bookings of a      *)
(* deleted property.                                                      *)
C17_HostBookings ==
    resp.op = "host_bookings" =>
       \A u \in CallerUser(resp.req.authorization) :
          IF u.role \notin {"host", "admin"}
          THEN resp.status = 403
          ELSE /\ resp.status = 200
               /\ Len(resp.body) = Len(HostedBookings(u))
               /\ \A k \in 1..Len(resp.body) :
                     /\ resp.body[k].id = str(HostedBookings(u)[k]._id)
                     /\ resp.body[k].property_id =
                           str(HostedBookings(u)[k].property_id)

\* an admin was shown the one booking of its own listing while a booking of
\* another host's listing is stored
C17_Witness ==
    /\ resp.op = "host_bookings"
    /\ resp.status = 200
    /\ \E u \in CallerUser(resp.req.authorization) : u.role = "admin"
    /\ Len(resp.body) = 1
    /\ Len(booking) = 2
    /\ \E i \in 1..Len(booking) : Target(str(booking[i].property_id)) # {}
                                  /\ str(booking[i]._id) # resp.body[1].id

(* C20: no step changes the host_id of a property that stays stored,      *)
(* whoever sends the request and whatever its body names.                 *)
C20_HostFixed ==
    [][\A i \in 1..Len(property), j \in 1..Len(property') :
          property'[j]._id = property[i]._id =>
             property'[j].host_id = property[i].host_id
    ]_vars

\* an admin changed a listing of a host, which is still the host's
C20_Witness ==
    /\ resp.op = "update_property"
    /\ resp.status = 200
    /\ \E u \in CallerUser(resp.req.authorization) :
          /\ u.role = "admin"
          /\ \E i \in Target(resp.req.prop_id) :
                /\ property[i].host_id # str(u._id)
                /\ property[i].updated_at # None
                /\ property[i].title = "t2"

----------------------------------------------------------------------------
(* Views: what the routes show of a user *)

\* SignupBody(**json): role, phone and city take their defaults when the
\* request leaves them out
SignupModel(raw) ==
    [full_name |-> raw.full_name, email |-> raw.email,
     password |-> raw.password,
     role |-> IF "role" \in DOMAIN raw THEN raw.role ELSE "user",
     phone |-> IF "phone" \in DOMAIN raw THEN Some(raw.phone) ELSE None,
     city |-> IF "city" \in DOMAIN raw THEN Some(raw.city) ELSE None]

SignupRequests ==
    {[full_name |-> "n", email |-> "a@x", password |-> "pw1", role |-> "host",
      city |-> "Istanbul"],
     [full_name |-> "n", email |-> "b@x", password |-> "pw2", role |-> "admin"],
     [full_name |-> "n", email |-> "c@x", password |-> "pw1"]}

NextViews ==
    \/ Serial /\ \E raw \in SignupRequests : signup(SignupModel(raw))
    \/ Serial /\ \E body \in LoginBody : login(body)
    \/ Serial /\ \E t \in Tokens : me(Bearer(t))
    \/ Serial /\ \E c \in {None} \cup {Bearer(t) : t \in Tokens} : admin_users(c)
    \/ Deliver

SpecViews == Init /\ [][NextViews]_vars

\* a view of a stored user: no password_hash, and the identifier under id
UserView(v) ==
    /\ "password_hash" \notin DOMAIN v
    /\ "_id" \notin DOMAIN v
    /\ "id" \in DOMAIN v
    /\ \E i \in 1..Len(user) :
          /\ v.id = str(user[i]._id)
          /\ v.email = user[i].email
          /\ v.role = user[i].role

(* C14: every user view that signup, login, /me and /admin/users return   *)
(* lacks password_hash and carries the user's identifier under id, and    *)
(* the view a signup without a role returns has role user.                *)
C14_UserViews ==
    /\ (resp.op \in {"signup", "login"} /\ resp.status = 200) =>
          UserView(resp.user)
    /\ (resp.op = "signup" /\ resp.status = 200) =>
          \A raw \in SignupRequests :
             ("role" \notin DOMAIN raw /\ SignupModel(raw) = resp.req) =>
                resp.user.role = "user"
    /\ (resp.op = "me" /\ resp.status = 200) =>
          \A v \in resp.user : UserView(v)
    /\ (resp.op = "admin_users" /\ resp.status = 200) =>
          /\ Len(resp.body) = Len(user)
          /\ \A k \in 1..Len(resp.body) : UserView(resp.body[k])

\* an admin was shown two users, one of them signed up without a role
C14_Witness ==
    /\ resp.op = "admin_users"
    /\ resp.status = 200
    /\ Len(resp.body) = 2
    /\ \E k \in 1..Len(resp.body) :
          /\ resp.body[k].role = "user"
          /\ \E raw \in SignupRequests :
                "role" \notin DOMAIN raw /\ raw.email = resp.body[k].email

----------------------------------------------------------------------------
(* Races: signup, update and delete, one database call per step.  signup   *)
(* is a plain def, which the framework runs on a thread of its pool; the   *)
(* property handlers run against a database that other server processes    *)
(* share.  Each worker runs one handler at a time and keeps its local      *)
(* variables in its frame; a finished handler leaves its answer in resp.   *)

Running(pcs) == Cardinality({w \in Workers : inflight[w].pc \in pcs})

RaceSignups == {SignupReq("e@x", "pw1", "user"), SignupReq("e@x", "pw2", "host")}

\* existing = db["user"].find_one({"email": body.email})
signup_find_one(w, body) ==
    /\ inflight[w] = NoFrame
    /\ Len(user) + Running({"signup_insert_user"}) < Len(SeedBodies) + MaxUsers
    /\ Len(session) + Running({"signup_insert_user", "signup_insert_session"})
          < Len(SeedBodies) + MaxSessions
    /\ inflight' = [inflight EXCEPT ![w] =
                      [pc |-> "signup_insert_user", body |-> body,
                       existing |-> SelectSeq(user,
                                       LAMBDA d : d.email = body.email) # <<>>]]
    /\ UNCHANGED <<user, session, property, booking, now, nextId, resp, issued>>

\* if existing: raise 400; user_id = db["user"].insert_one(user_doc).inserted_id
signup_insert_user(w) ==
    LET f == inflight[w]
        user_id == ObjectId(nextId)
    IN /\ f.pc = "signup_insert_user"
       /\ IF f.existing
          THEN /\ resp' = [op |-> "signup", status |-> 400, req |-> f.body]
               /\ inflight' = [inflight EXCEPT ![w] = NoFrame]
               /\ UNCHANGED <<user, nextId>>
          ELSE /\ user' = Append(user, UserSchema(user_id, f.body))
               /\ nextId' = nextId + 1
               /\ inflight' = [inflight EXCEPT ![w] =
                                 [pc |-> "signup_insert_session",
                                  body |-> f.body, user_id |-> user_id]]
               /\ UNCHANGED resp
       /\ UNCHANGED <<session, property, booking, now, issued>>

\* db["session"].insert_one(session_doc) and the answer; the user document
\* read back for it is never changed or removed by any handler
signup_insert_session(w) ==
    LET f == inflight[w]
        token == NewToken
        found == SelectSeq(user, LAMBDA d : d._id = f.user_id)
    IN /\ f.pc = "signup_insert_session"
       /\ session' = Append(session, SessionSchema(f.user_id, token, now))
       /\ resp' = [op |-> "signup", status |-> 200, req |-> f.body,
                   token |-> token, user |-> user_safe(Head(found))]
       /\ issued' = issued \cup {[token |-> token, id |-> str(f.user_id),
                                  email |-> f.body.email, via |-> "signup",
                                  at |-> now]}
       /\ inflight' = [inflight EXCEPT ![w] = NoFrame]
       /\ UNCHANGED <<user, property, booking, now, nextId>>

\* get_current_user, p = find_one({"_id": ...}) and the checks on p and body
update_find_one(w, prop_id, body, authorization) ==
    LET req == [prop_id |-> prop_id, body |-> body,
                authorization |-> authorization]
        cur == get_current_user(authorization)
        u == The(cur.user)
        oid == to_object_id(prop_id)
        at == IF oid = None THEN {} ELSE IndexOf(property, The(oid))
        p == property[First(at)]
        answer(status, b) ==
            /\ resp' = Response("update_property", req, status, b)
            /\ UNCHANGED inflight
    IN /\ inflight[w] = NoFrame
       /\ IF cur.status # 200 THEN answer(cur.status, <<>>)
          ELSE IF oid = None THEN answer(400, <<>>)
          ELSE IF at = {} THEN answer(404, <<>>)
          ELSE IF u.role # "admin" /\ p.host_id # u.id THEN answer(403, <<>>)
          ELSE IF body = NoUpdate THEN answer(200, <<[updated |-> FALSE]>>)
          ELSE /\ inflight' = [inflight EXCEPT ![w] =
                                 [pc |-> "update_update_one", req |-> req,
                                  _id |-> p._id]]
               /\ UNCHANGED resp
       /\ UNCHANGED <<user, session, property, booking, now, nextId, issued>>

\* update_one({"_id": p["_id"]}, ...): no document matches, nothing is written
update_update_one(w) ==
    LET f == inflight[w]
        at == IndexOf(property, f._id)
    IN /\ f.pc = "update_update_one"
       /\ property' = IF at = {} THEN property
                      ELSE [property EXCEPT ![First(at)] =
                              apply_update(property[First(at)], f.req.body)]
       /\ inflight' = [inflight EXCEPT ![w] = [f EXCEPT !.pc = "update_refetch"]]
       /\ UNCHANGED <<user, session, booking, now, nextId, resp, issued>>

\* p = find_one({"_id": p["_id"]}); p["id"] = str(p.pop("_id")); return p.
\* find_one returns None for a removed document and None.pop raises
update_refetch(w) ==
    LET f == inflight[w]
        at == IndexOf(property, f._id)
    IN /\ f.pc = "update_refetch"
       /\ resp' = IF at = {}
                  THEN Response("update_property", f.req, 500, <<>>)
                  ELSE Response("update_property", f.req, 200,
                                <<property_view(property[First(at)])>>)
       /\ inflight' = [inflight EXCEPT ![w] = NoFrame]
       /\ UNCHANGED <<user, session, property, booking, now, nextId, issued>>

NextRace ==
    \/ \E w \in Workers, body \in RaceSignups : signup_find_one(w, body)
    \/ \E w \in Workers : signup_insert_user(w)
    \/ \E w \in Workers : signup_insert_session(w)
    \/ \E w \in Workers, id \in BookingIds, c \in {Host1, Plain} :
          update_find_one(w, id, Upd1("price_per_month", 1500), c)
    \/ \E w \in Workers : update_update_one(w)
    \/ \E w \in Workers : update_refetch(w)
    \/ \E id \in BookingIds : delete_property(id, Host1) /\ UNCHANGED inflight

SpecRace == InitBooked /\ [][NextRace]_vars

(* C18: in every reachable state no two stored users have the same        *)
(* e-mail, also when signups for one e-mail run at the same time.         *)
C18_UniqueEmails ==
    \A i, j \in 1..Len(user) : user[i].email = user[j].email => i = j

(* C19: an update whose property was deleted after its checks passed does *)
(* not store the property again, and it ends with the updated record or   *)
(* with 404.                                                              *)
C19_UpdateAfterDelete ==
    [][\A w \in Workers :
          (/\ inflight[w].pc \in {"update_update_one", "update_refetch"}
           /\ inflight'[w] # inflight[w]
           /\ IndexOf(property, inflight[w]._id) = {}) =>
             /\ IndexOf(property', inflight[w]._id) = {}
             /\ inflight'[w] = NoFrame =>
                   /\ resp'.op = "update_property"
                   /\ resp'.status \in {200, 404}
    ]_vars

====
